---- MODULE Spec2Model ----
(***************************************************************************)
(* Model of splitwise_mcp.py: four MCP tools (add_expense, get_users,      *)
(* get_groups, get_current_user) that each read the credential from the    *)
(* environment, open a SplitwiseClient, await one HTTP exchange with the   *)
(* Splitwise API, validate the JSON body and project it to a plain dict.   *)
(*                                                                         *)
(* Python values are tagged records [kind, val]; a dict is a TLA+ function *)
(* from key strings to values, a list a sequence, a str a TLA+ string.     *)
(***************************************************************************)
EXTENDS Integers, Sequences, FiniteSets, TLC

VARIABLES env, heap, inv

vars == <<env, heap, inv>>

-----------------------------------------------------------------------------
(* Bounds of the model *)

NumProcs == 2
MaxUsers == 2
MaxNameLen == 2

Procs == 1..NumProcs

-----------------------------------------------------------------------------
(* Python values *)

PyNone == [kind |-> "None"]
PyInt(n) == [kind |-> "int", val |-> n]
PyStr(s) == [kind |-> "str", val |-> s]
PyBool(b) == [kind |-> "bool", val |-> b]
PyDict(d) == [kind |-> "dict", val |-> d]
PyList(l) == [kind |-> "list", val |-> l]

EmptyDict == <<>>

\* Python truth value testing, as used by `if x:`, `not x` and `x or y`.
Truthy(v) ==
    CASE v.kind = "None" -> FALSE
      [] v.kind = "int" -> v.val # 0
      [] v.kind = "bool" -> v.val
      [] v.kind = "str" -> Len(v.val) > 0
      [] v.kind = "list" -> Len(v.val) > 0
      [] v.kind = "dict" -> DOMAIN v.val # {}

\* payload[key] = value
SetItem(d, key, value) == (key :> value) @@ d

\* data.get(key, default)
DictGet(d, key, default) == IF key \in DOMAIN d THEN d[key] ELSE default

-----------------------------------------------------------------------------
(* Configuration *)

\* The process environment: the four settings get_splitwise_config reads.
EnvVars == {"SPLITWISE_CONSUMER_KEY", "SPLITWISE_CONSUMER_SECRET",
            "SPLITWISE_ACCESS_TOKEN", "SPLITWISE_API_KEY"}

\* os.getenv(name): the value, or None when the variable is unset.
GetEnv(e, name) == IF name \in DOMAIN e THEN PyStr(e[name]) ELSE PyNone

\* Variant: api_key read from SPLITWISE_ACCESS_TOKEN.
ReadAccessTokenAsApiKey(e) ==
    [consumer_key |-> GetEnv(e, "SPLITWISE_CONSUMER_KEY"),
     consumer_secret |-> GetEnv(e, "SPLITWISE_CONSUMER_SECRET"),
     access_token |-> GetEnv(e, "SPLITWISE_ACCESS_TOKEN"),
     api_key |-> GetEnv(e, "SPLITWISE_ACCESS_TOKEN")]

get_splitwise_config(e) ==
    [consumer_key |-> GetEnv(e, "SPLITWISE_CONSUMER_KEY"),
     consumer_secret |-> GetEnv(e, "SPLITWISE_CONSUMER_SECRET"),
     access_token |-> GetEnv(e, "SPLITWISE_ACCESS_TOKEN"),
     api_key |-> GetEnv(e, "SPLITWISE_API_KEY")]

\* Outcomes of a call: a returned value or a raised exception.
Return(v) == [kind |-> "return", value |-> v]
Raise(exc, msg, detail) == [kind |-> "raise", exc |-> exc, msg |-> msg, detail |-> detail]

\* SplitwiseClient._get_headers
GetHeaders(config) ==
    IF Truthy(config.api_key)
    THEN Return(("Authorization" :> ("Bearer " \o config.api_key.val))
                @@ ("Content-Type" :> "application/json"))
    ELSE Raise("ValueError", "API key is required. OAuth flow not implemented yet.", PyNone)

-----------------------------------------------------------------------------
(* create_expense: payload construction *)

\* Variant: if value is not None: payload[key] = value
SetIfNotNone(payload, key, value) ==
    IF value.kind # "None" THEN SetItem(payload, key, value) ELSE payload

\* if value: payload[key] = value
SetIfTruthy(payload, key, value) ==
    IF Truthy(value) THEN SetItem(payload, key, value) ELSE payload

\* Variant: enumerate(users, 1)
UserKeyOneBased(i, field) == "users__" \o ToString(i + 1) \o "__" \o field

\* f"users__{i}__{field}"
UserKey(i, field) == "users__" \o ToString(i) \o "__" \o field

\* if field in user: payload[f"users__{i}__{field}"] = user[field]
CopyShare(payload, user, i, field) ==
    IF field \in DOMAIN user
    THEN SetItem(payload, UserKey(i, field), user[field])
    ELSE payload

\* for i, user in enumerate(users): ...   (i is zero-based; sequences are 1-based)
RECURSIVE FlattenUsers(_, _, _)
FlattenUsers(payload, users, i) ==
    IF i >= Len(users)
    THEN payload
    ELSE LET user == users[i + 1].val
             p1 == CopyShare(payload, user, i, "user_id")
             p2 == CopyShare(p1, user, i, "paid_share")
             p3 == CopyShare(p2, user, i, "owed_share")
         IN FlattenUsers(p3, users, i + 1)

BuildPayload(args) ==
    LET base == ("cost" :> args.cost) @@ ("description" :> args.description)
                @@ ("currency_code" :> args.currency_code) @@ ("payment" :> args.payment)
        p1 == SetIfTruthy(base, "group_id", args.group_id)
        p2 == SetIfTruthy(p1, "date", args.date)
        p3 == SetIfTruthy(p2, "details", args.details)
        p4 == SetIfTruthy(p3, "category_id", args.category_id)
    IN IF Truthy(args.users) THEN FlattenUsers(p4, args.users.val, 0) ELSE p4

-----------------------------------------------------------------------------
(* Full-name derivation *)

Whitespace == {" ", "\t", "\n"}

RECURSIVE LStrip(_)
LStrip(s) == IF Len(s) > 0 /\ Head(s) \in Whitespace THEN LStrip(Tail(s)) ELSE s

RECURSIVE RStrip(_)
RStrip(s) ==
    IF Len(s) > 0 /\ SubSeq(s, Len(s), Len(s)) \in Whitespace
    THEN RStrip(SubSeq(s, 1, Len(s) - 1))
    ELSE s

\* Variant: str.rstrip()
StripTrailing(s) == RStrip(s)

\* str.strip()
Strip(s) == LStrip(RStrip(s))

\* f"{u.first_name} {u.last_name or ''}".strip()
FullName(u) ==
    Strip(u.first_name.val \o " " \o (IF Truthy(u.last_name) THEN u.last_name.val ELSE ""))

-----------------------------------------------------------------------------
(* Response schemas (the pydantic models) *)

Field(type, optional) == [type |-> type, optional |-> optional]

\* class SplitwiseUser(BaseModel)
SplitwiseUser ==
    [id |-> Field("int", FALSE),
     first_name |-> Field("str", FALSE),
     last_name |-> Field("str", TRUE),
     email |-> Field("str", TRUE),
     registration_status |-> Field("str", TRUE),
     picture |-> Field("dict", TRUE)]

\* class SplitwiseGroup(BaseModel)
SplitwiseGroup ==
    [id |-> Field("int", FALSE),
     name |-> Field("str", FALSE),
     created_at |-> Field("str", FALSE),
     updated_at |-> Field("str", FALSE),
     members |-> Field("list_user", FALSE),
     simplify_by_default |-> Field("bool", FALSE),
     original_debts |-> Field("list_dict", FALSE),
     simplified_debts |-> Field("list_dict", FALSE)]

\* class SplitwiseExpense(BaseModel)
SplitwiseExpense ==
    [id |-> Field("int", FALSE),
     group_id |-> Field("int", FALSE),
     description |-> Field("str", FALSE),
     payment |-> Field("bool", FALSE),
     cost |-> Field("str", FALSE),
     currency_code |-> Field("str", FALSE),
     date |-> Field("str", FALSE),
     created_at |-> Field("str", FALSE),
     updated_at |-> Field("str", FALSE),
     created_by |-> Field("user", FALSE),
     updated_by |-> Field("user", FALSE),
     category |-> Field("dict", FALSE),
     details |-> Field("str", TRUE),
     users |-> Field("list_dict", FALSE),
     expense_bundle_id |-> Field("int", TRUE),
     friendship_id |-> Field("int", TRUE),
     repayments |-> Field("list_dict", FALSE)]

RECURSIVE Conforms(_, _)
RECURSIVE BadFields(_, _)

\* Does value v have the annotated type t?
Conforms(v, t) ==
    CASE t \in {"int", "str", "bool", "dict"} -> v.kind = t
      [] t = "list_dict" ->
            /\ v.kind = "list"
            /\ \A i \in 1..Len(v.val) : v.val[i].kind = "dict"
      [] t = "user" ->
            /\ v.kind = "dict"
            /\ BadFields(v.val, SplitwiseUser) = {}
      [] t = "list_user" ->
            /\ v.kind = "list"
            /\ \A i \in 1..Len(v.val) : Conforms(v.val[i], "user")

\* The fields of dict d that fail validation against the schema: a required
\* field that is missing, or a field whose value has the wrong shape.
BadFields(d, schema) ==
    {f \in DOMAIN schema :
        IF f \in DOMAIN d
        THEN ~ \/ (schema[f].optional /\ d[f].kind = "None")
               \/ Conforms(d[f], schema[f].type)
        ELSE ~schema[f].optional}

\* The model instance: declared fields only, an absent optional field is None.
Instance(d, schema) == [f \in DOMAIN schema |-> DictGet(d, f, PyNone)]

\* Model(**value): TypeError when value is no mapping, ValidationError naming
\* the offending fields when validation fails, else the instance.
Construct(value, schema) ==
    IF value.kind # "dict"
    THEN Raise("TypeError", "argument after ** must be a mapping", value)
    ELSE IF BadFields(value.val, schema) # {}
    THEN Raise("ValidationError", "validation error", BadFields(value.val, schema))
    ELSE Return(Instance(value.val, schema))

\* [Model(**x) for x in values]: the first failure propagates.
ConstructAll(values, schema) ==
    IF values.kind # "list"
    THEN Raise("TypeError", "object is not iterable", values)
    ELSE LET rs == [i \in 1..Len(values.val) |-> Construct(values.val[i], schema)]
             bad == {i \in 1..Len(values.val) : rs[i].kind = "raise"}
         IN IF bad # {}
            THEN rs[CHOOSE i \in bad : \A j \in bad : i <= j]
            ELSE Return([i \in 1..Len(values.val) |-> rs[i].value])

-----------------------------------------------------------------------------
(* API client: response handling *)

HTTP_OK == 200

\* httpx Response.is_success
IsSuccess(status) == 200 <= status /\ status <= 299

\* Variant: without the status_code != 200 check.
ReceiveJsonAny2xx(resp) ==
    IF resp.kind = "neterr"
    THEN Raise("RequestError", "network error", PyNone)
    ELSE IF ~IsSuccess(resp.status)
    THEN Raise("HTTPStatusError", "error status", resp)
    ELSE IF ~resp.body.json
    THEN Raise("JSONDecodeError", "body is not JSON", resp.body)
    ELSE Return(resp.body.data)

\* await self.client.get/post(...); response.raise_for_status();
\* data = response.json(); if response.status_code != 200: raise ValueError(...)
ReceiveJson(resp) ==
    IF resp.kind = "neterr"
    THEN Raise("RequestError", "network error", PyNone)
    ELSE IF ~IsSuccess(resp.status)
    THEN Raise("HTTPStatusError", "error status", resp)
    ELSE IF ~resp.body.json
    THEN Raise("JSONDecodeError", "body is not JSON", resp.body)
    ELSE IF resp.status # HTTP_OK
    THEN Raise("ValueError", "API request failed",
               DictGet(resp.body.data, "errors", PyStr("Unknown error")))
    ELSE Return(resp.body.data)

\* return SplitwiseUser(**data["user"])
UserFromData(data) ==
    IF "user" \notin DOMAIN data
    THEN Raise("KeyError", "user", PyDict(data))
    ELSE Construct(data["user"], SplitwiseUser)

\* return [SplitwiseGroup(**group) for group in data["groups"]]
GroupsFromData(data) ==
    IF "groups" \notin DOMAIN data
    THEN Raise("KeyError", "groups", PyDict(data))
    ELSE ConstructAll(data["groups"], SplitwiseGroup)

\* return [SplitwiseUser(**friend) for friend in data["friends"]]
FriendsFromData(data) ==
    IF "friends" \notin DOMAIN data
    THEN Raise("KeyError", "friends", PyDict(data))
    ELSE ConstructAll(data["friends"], SplitwiseUser)

\* Variant: SplitwiseExpense(**data.get("expense", {})) without the key check.
ExpenseFromDataUnchecked(data) ==
    Construct(DictGet(data, "expense", PyDict(EmptyDict)), SplitwiseExpense)

\* if "expense" not in data: raise ValueError(...)
\* return SplitwiseExpense(**data["expense"])
ExpenseFromData(data) ==
    IF "expense" \notin DOMAIN data
    THEN Raise("ValueError", "Unexpected API response structure", PyDict(data))
    ELSE Construct(data["expense"], SplitwiseExpense)

\* The request each client method issues.
Endpoint(method) ==
    CASE method = "get_current_user" -> [verb |-> "GET", path |-> "/get_current_user"]
      [] method = "get_groups" -> [verb |-> "GET", path |-> "/get_groups"]
      [] method = "get_friends" -> [verb |-> "GET", path |-> "/get_friends"]
      [] method = "create_expense" -> [verb |-> "POST", path |-> "/create_expense"]

\* What a client method makes of the response to its request.
ClientResult(method, resp) ==
    LET r == ReceiveJson(resp)
    IN IF r.kind = "raise" THEN r
       ELSE CASE method = "get_current_user" -> UserFromData(r.value)
              [] method = "get_groups" -> GroupsFromData(r.value)
              [] method = "get_friends" -> FriendsFromData(r.value)
              [] method = "create_expense" -> ExpenseFromData(r.value)

-----------------------------------------------------------------------------
(* Tool adapters *)

Tools == {"add_expense", "get_users", "get_groups", "get_current_user"}

\* Variant: add_expense looks the current user up before creating the expense.
ClientCallsWithLookup(tool) ==
    CASE tool = "add_expense" -> <<"get_current_user", "create_expense">>
      [] tool = "get_users" -> <<"get_friends">>
      [] tool = "get_groups" -> <<"get_groups">>
      [] tool = "get_current_user" -> <<"get_current_user">>

\* The client methods a tool awaits inside its `async with` block, in order.
ClientCalls(tool) ==
    CASE tool = "add_expense" -> <<"create_expense">>
      [] tool = "get_users" -> <<"get_friends">>
      [] tool = "get_groups" -> <<"get_groups">>
      [] tool = "get_current_user" -> <<"get_current_user">>

\* add_expense: the returned dict
ProjectExpense(expense) ==
    [id |-> expense.id,
     description |-> expense.description,
     cost |-> expense.cost,
     currency_code |-> expense.currency_code,
     date |-> expense.date,
     group_id |-> expense.group_id,
     created_at |-> expense.created_at,
     success |-> PyBool(TRUE)]

\* get_users: one dict per friend
ProjectFriend(friend) ==
    [id |-> friend.id,
     first_name |-> friend.first_name,
     last_name |-> friend.last_name,
     full_name |-> PyStr(FullName(friend)),
     email |-> friend.email,
     registration_status |-> friend.registration_status]

\* get_groups: one dict per member of a group
ProjectMember(member) ==
    [id |-> member.id,
     first_name |-> member.first_name,
     last_name |-> member.last_name,
     full_name |-> PyStr(FullName(member)),
     email |-> member.email]

\* get_groups: one dict per group; group.members holds validated users
ProjectGroup(group) ==
    LET members == [i \in 1..Len(group.members.val) |->
                       Instance(group.members.val[i].val, SplitwiseUser)]
    IN [id |-> group.id,
        name |-> group.name,
        created_at |-> group.created_at,
        updated_at |-> group.updated_at,
        member_count |-> PyInt(Len(members)),
        members |-> PyList([i \in 1..Len(members) |-> PyDict(ProjectMember(members[i]))]),
        simplify_by_default |-> group.simplify_by_default]

\* get_current_user: the returned dict
ProjectCurrentUser(user) ==
    [id |-> user.id,
     first_name |-> user.first_name,
     last_name |-> user.last_name,
     full_name |-> PyStr(FullName(user)),
     email |-> user.email,
     registration_status |-> user.registration_status,
     picture |-> user.picture]

\* What a tool returns from the result of its client call.
Project(tool, result) ==
    CASE tool = "add_expense" -> PyDict(ProjectExpense(result))
      [] tool = "get_users" ->
            PyList([i \in 1..Len(result) |-> PyDict(ProjectFriend(result[i]))])
      [] tool = "get_groups" ->
            PyList([i \in 1..Len(result) |-> PyDict(ProjectGroup(result[i]))])
      [] tool = "get_current_user" -> PyDict(ProjectCurrentUser(result))

-----------------------------------------------------------------------------
(* HTTP clients and requests *)

\* Variant: one module-level client used by every invocation.
SharedClient(h) == 1

\* SplitwiseClient.__init__: a new httpx.AsyncClient for this SplitwiseClient
NewClient(h) == Cardinality(DOMAIN h) + 1

\* Variant: aclose() only when the block ended without exception.
AExitOnSuccessOnly(h, c, outcome) ==
    IF outcome.kind = "raise" THEN h ELSE [h EXCEPT ![c] = "closed"]

\* SplitwiseClient.__aexit__(exc_type, exc_val, exc_tb): await self.client.aclose()
AExit(h, c, outcome) == [h EXCEPT ![c] = "closed"]

\* The request a client method sends: create_expense posts the payload as JSON.
Request(method, headers, args) ==
    [verb |-> Endpoint(method).verb,
     path |-> Endpoint(method).path,
     headers |-> headers,
     json |-> IF method = "create_expense" THEN PyDict(BuildPayload(args)) ELSE PyNone]

\* An invocation slot before the tool is called.
Idle ==
    [pc |-> "idle", tool |-> "", args |-> PyNone, client |-> 0, step |-> 0,
     request |-> PyNone, nreq |-> 0, response |-> PyNone, outcome |-> PyNone]

\* A client method is entered: its arguments are evaluated (payload, then
\* _get_headers) and the request goes out; the coroutine suspends on the await.
Call(rec, config, k) ==
    LET method == ClientCalls(rec.tool)[k]
        h == GetHeaders(config)
    IN IF h.kind = "raise"
       THEN [rec EXCEPT !.pc = "exiting", !.step = k, !.outcome = h]
       ELSE [rec EXCEPT !.pc = "awaiting", !.step = k,
                        !.request = Request(method, h.value, rec.args),
                        !.nreq = rec.nreq + 1]

\* A tool is called: it reads the configuration, fails when the API key is
\* missing, else creates its client, enters the `async with` block and starts
\* its client call.
Invoke(p, tool, args) ==
    /\ inv[p].pc = "idle"
    /\ LET config == get_splitwise_config(env)
           started == [inv[p] EXCEPT !.tool = tool, !.args = args]
       IN IF ~Truthy(config.api_key)
          THEN /\ inv' = [inv EXCEPT ![p] =
                            [started EXCEPT !.pc = "done", !.outcome =
                                Raise("ValueError",
                                      "SPLITWISE_API_KEY environment variable is required",
                                      PyNone)]]
               /\ UNCHANGED heap
          ELSE LET c == NewClient(heap)
               IN /\ heap' = (c :> "open") @@ heap
                  /\ inv' = [inv EXCEPT ![p] =
                               Call([started EXCEPT !.client = c], config, 1)]
    /\ UNCHANGED env

\* The awaited exchange ends with resp (a response or a network error): the
\* client method checks, parses and validates it and the tool projects it.
Respond(p, resp) ==
    /\ inv[p].pc = "awaiting"
    /\ LET rec == [inv[p] EXCEPT !.response = resp]
           calls == ClientCalls(rec.tool)
           r == ClientResult(calls[rec.step], resp)
       IN inv' = [inv EXCEPT ![p] =
                    IF r.kind = "raise"
                    THEN [rec EXCEPT !.pc = "exiting", !.outcome = r]
                    ELSE IF rec.step < Len(calls)   \* the tool awaits another client call
                    THEN Call(rec, get_splitwise_config(env), rec.step + 1)
                    ELSE [rec EXCEPT !.pc = "exiting",
                                     !.outcome = Return(Project(rec.tool, r.value))]]
    /\ UNCHANGED <<env, heap>>

\* The `async with` block is left, by return or by exception: __aexit__ closes
\* the client and the outcome reaches the caller.
Exit(p) ==
    /\ inv[p].pc = "exiting"
    /\ heap' = AExit(heap, inv[p].client, inv[p].outcome)
    /\ inv' = [inv EXCEPT ![p].pc = "done"]
    /\ UNCHANGED env

-----------------------------------------------------------------------------
(* Inputs: environments, tool arguments and upstream responses *)

EnvNoKey == <<>>
EnvTokenOnly == ("SPLITWISE_ACCESS_TOKEN" :> "t")
EnvEmptyKey == ("SPLITWISE_API_KEY" :> "")
EnvKey == ("SPLITWISE_API_KEY" :> "k")

Envs == {EnvNoKey, EnvTokenOnly, EnvEmptyKey, EnvKey}

\* add_expense(cost, description) with every optional argument at its default
DefaultArgs ==
    [cost |-> PyStr("25.50"), description |-> PyStr("Lunch"), group_id |-> PyNone,
     users |-> PyNone, currency_code |-> PyStr("USD"), date |-> PyNone,
     details |-> PyNone, payment |-> PyBool(FALSE), category_id |-> PyNone]

\* The arguments each tool is called with in Spec.
ArgsOf(tool) ==
    IF tool = "add_expense"
    THEN {DefaultArgs, [DefaultArgs EXCEPT !.group_id = PyInt(5)]}
    ELSE {PyNone}

\* Participant-share entries: each sub-field present or absent.
ShareEntries ==
    {PyDict(e) : e \in UNION {[S -> {PyInt(1), PyInt(2), PyStr("5.00")}] :
                                 S \in SUBSET {"user_id", "paid_share", "owed_share"}}}

WellTypedEntries ==
    {e \in ShareEntries :
        /\ "user_id" \in DOMAIN e.val => e.val["user_id"].kind = "int"
        /\ "paid_share" \in DOMAIN e.val => e.val["paid_share"] = PyStr("5.00")
        /\ "owed_share" \in DOMAIN e.val => e.val["owed_share"] = PyStr("5.00")}

RECURSIVE SeqsUpTo(_, _)
SeqsUpTo(S, n) ==
    IF n = 0 THEN {<<>>}
    ELSE LET shorter == SeqsUpTo(S, n - 1)
         IN shorter \cup {Append(q, x) : q \in shorter, x \in S}

\* The arguments add_expense is called with in SpecPayload: every combination
\* of the four optional scalars with a few participant lists, and every
\* participant list with the optional scalars all absent or all given.
SomeUsers ==
    {PyNone, PyList(<<>>),
     PyList(<<PyDict(("user_id" :> PyInt(1)) @@ ("paid_share" :> PyStr("5.00"))),
              PyDict(("user_id" :> PyInt(2)) @@ ("owed_share" :> PyStr("5.00")))>>)}

AllUsers == {PyNone} \cup {PyList(q) : q \in SeqsUpTo(WellTypedEntries, MaxUsers)}

PayloadArgs ==
    {[DefaultArgs EXCEPT !.group_id = g, !.date = d, !.details = t,
                         !.category_id = c, !.users = u] :
        g \in {PyNone, PyInt(0), PyInt(5)},
        d \in {PyNone, PyStr(""), PyStr("2024-01-31")},
        t \in {PyNone, PyStr(""), PyStr("note")},
        c \in {PyNone, PyInt(0), PyInt(18)},
        u \in SomeUsers}
    \cup {[DefaultArgs EXCEPT !.users = u] : u \in AllUsers}
    \cup {[DefaultArgs EXCEPT !.group_id = PyInt(5), !.date = PyStr("2024-01-31"),
                              !.details = PyStr("note"), !.category_id = PyInt(18),
                              !.users = u] : u \in AllUsers}

Alphabet == {"a", " "}

RECURSIVE Strings(_)
Strings(n) ==
    IF n = 0 THEN {""}
    ELSE LET shorter == Strings(n - 1)
         IN shorter \cup {x \o c : x \in shorter, c \in Alphabet}

Names == Strings(MaxNameLen)

UserRecord(first, last) ==
    ("id" :> PyInt(7)) @@ ("first_name" :> first) @@ ("last_name" :> last)
    @@ ("email" :> PyStr("ann@example.com")) @@ ("registration_status" :> PyStr("confirmed"))
    @@ ("picture" :> PyDict("small" :> PyStr("https://example.com/a.png")))

AnnLee == UserRecord(PyStr("Ann"), PyStr("Lee"))

GroupRecord(members) ==
    ("id" :> PyInt(3)) @@ ("name" :> PyStr("Flat")) @@ ("created_at" :> PyStr("2024-01-01"))
    @@ ("updated_at" :> PyStr("2024-01-02")) @@ ("members" :> PyList(members))
    @@ ("simplify_by_default" :> PyBool(TRUE)) @@ ("original_debts" :> PyList(<<>>))
    @@ ("simplified_debts" :> PyList(<<>>))

ExpenseRecord(group_id) ==
    ("id" :> PyInt(42)) @@ ("group_id" :> group_id) @@ ("description" :> PyStr("Lunch"))
    @@ ("payment" :> PyBool(FALSE)) @@ ("cost" :> PyStr("25.50"))
    @@ ("currency_code" :> PyStr("USD")) @@ ("date" :> PyStr("2024-01-31"))
    @@ ("created_at" :> PyStr("2024-01-31")) @@ ("updated_at" :> PyStr("2024-01-31"))
    @@ ("created_by" :> PyDict(AnnLee)) @@ ("updated_by" :> PyDict(AnnLee))
    @@ ("category" :> PyDict("id" :> PyInt(18))) @@ ("details" :> PyNone)
    @@ ("users" :> PyList(<<>>)) @@ ("expense_bundle_id" :> PyNone)
    @@ ("friendship_id" :> PyNone) @@ ("repayments" :> PyList(<<>>))

NetErr == [kind |-> "neterr"]
Http(status, body) == [kind |-> "http", status |-> status, body |-> body]
NonJson == [json |-> FALSE]
Json(data) == [json |-> TRUE, data |-> data]

\* The top-level key of each endpoint's response.
KeyOf(method) ==
    CASE method = "get_current_user" -> "user"
      [] method = "get_groups" -> "groups"
      [] method = "get_friends" -> "friends"
      [] method = "create_expense" -> "expense"

\* Values the upstream service sends under the top-level key.
UpstreamValues(method) ==
    CASE method = "get_current_user" -> {PyDict(AnnLee)}
      [] method = "get_groups" ->
            {PyList(<<PyDict(GroupRecord(<<>>))>>),
             PyList(<<PyDict(GroupRecord(<<PyDict(AnnLee)>>))>>)}
      [] method = "get_friends" -> {PyList(<<>>), PyList(<<PyDict(AnnLee)>>)}
      [] method = "create_expense" ->
            {PyDict(ExpenseRecord(PyInt(5))), PyDict(ExpenseRecord(PyNone))}

\* Values of the wrong shape under the top-level key.
MisshapenValues(method) ==
    CASE method = "get_current_user" -> {PyDict("id" :> PyStr("x"))}
      [] method = "get_groups" -> {PyList(<<PyDict("id" :> PyStr("x"))>>)}
      [] method = "get_friends" -> {PyList(<<PyDict("id" :> PyStr("x"))>>)}
      [] method = "create_expense" -> {PyDict("id" :> PyStr("x"))}

ErrorBody == Json("errors" :> PyDict("base" :> PyStr("Invalid API request")))

\* How the exchange of a client method can end in Spec.
Responses(method) ==
    {NetErr, Http(404, ErrorBody), Http(500, NonJson), Http(204, NonJson),
     Http(201, ErrorBody), Http(200, NonJson), Http(200, Json(EmptyDict))}
    \cup {Http(s, Json(KeyOf(method) :> v)) :
             s \in {200, 201}, v \in UpstreamValues(method) \cup MisshapenValues(method)}

\* How it can end in SpecConc.
FewResponses(method) ==
    {NetErr, Http(200, Json(EmptyDict))}
    \cup {Http(200, Json(KeyOf(method) :> v)) : v \in UpstreamValues(method)}

\* Responses carrying one user record with the given names.
NamedUser(first, last) == PyDict(UserRecord(PyStr(first), last))

NameResponses(method) ==
    {Http(200, Json(KeyOf(method) :>
        CASE method = "get_current_user" -> NamedUser(f, l)
          [] method = "get_friends" -> PyList(<<NamedUser(f, l)>>)
          [] method = "get_groups" -> PyList(<<PyDict(GroupRecord(<<NamedUser(f, l)>>))>>))) :
        f \in Names, l \in {PyNone} \cup {PyStr(n) : n \in Names}}

\* The client method invocation p is awaiting.
Awaited(p) == ClientCalls(inv[p].tool)[inv[p].step]

-----------------------------------------------------------------------------
(* Specifications *)

\* One tool invocation, every tool, environment and way the exchange can end.
Init ==
    /\ env \in Envs
    /\ heap = <<>>
    /\ inv = [p \in Procs |-> Idle]

Next ==
    \/ \E tool \in Tools : \E args \in ArgsOf(tool) : Invoke(1, tool, args)
    \/ inv[1].pc = "awaiting" /\ \E resp \in Responses(Awaited(1)) : Respond(1, resp)
    \/ Exit(1)

Spec == Init /\ [][Next]_vars

\* Concurrent tool invocations on the event loop, interleaved at their awaits.
NextConc ==
    \E p \in Procs :
        \/ \E tool \in Tools : Invoke(p, tool, IF tool = "add_expense" THEN DefaultArgs ELSE PyNone)
        \/ inv[p].pc = "awaiting" /\ \E resp \in FewResponses(Awaited(p)) : Respond(p, resp)
        \/ Exit(p)

SpecConc == Init /\ [][NextConc]_vars

\* add_expense over the argument space of the payload construction.
InitPayload ==
    /\ env = EnvKey
    /\ heap = <<>>
    /\ inv = [p \in Procs |-> Idle]

NextPayload ==
    \/ inv[1].pc = "idle" /\ \E args \in PayloadArgs : Invoke(1, "add_expense", args)
    \/ inv[1].pc = "awaiting" /\ Respond(1, Http(200, Json("expense" :> PyDict(ExpenseRecord(PyInt(5))))))
    \/ Exit(1)

SpecPayload == InitPayload /\ [][NextPayload]_vars

\* The three user-projecting tools over the space of names.
NextNames ==
    \/ \E tool \in Tools \ {"add_expense"} : Invoke(1, tool, PyNone)
    \/ inv[1].pc = "awaiting" /\ \E resp \in NameResponses(Awaited(1)) : Respond(1, resp)
    \/ Exit(1)

SpecNames == InitPayload /\ [][NextNames]_vars

-----------------------------------------------------------------------------
(* Error taxonomy of the specification, by raise site *)

\* ValueError raised for a missing API key (tool adapter or _get_headers)
IsAuthenticationError(o) ==
    /\ o.kind = "raise"
    /\ o.exc = "ValueError"
    /\ o.msg \in {"SPLITWISE_API_KEY environment variable is required",
                  "API key is required. OAuth flow not implemented yet."}

\* httpx network error, httpx status error, or ValueError("API request failed")
IsTransportError(o) ==
    /\ o.kind = "raise"
    /\ \/ o.exc \in {"RequestError", "HTTPStatusError"}
       \/ o.exc = "ValueError" /\ o.msg = "API request failed"

Finished(p) == inv[p].pc \in {"exiting", "done"}

\* The invocation has processed the end of its exchange.
Answered(p) == Finished(p) /\ inv[p].response.kind # "None"

-----------------------------------------------------------------------------
(* C1 *)

ApiKeyAbsent == "SPLITWISE_API_KEY" \notin DOMAIN env

\* C1: when the API key is absent from the environment, an invocation of any
\* of the four tools has failed with the missing-API-key error as soon as it
\* has started, and it has issued no HTTP request.
C1_MissingKeyFailsBeforeRequest ==
    \A p \in Procs :
        (ApiKeyAbsent /\ inv[p].pc # "idle") =>
            /\ inv[p].tool \in Tools
            /\ inv[p].pc = "done"
            /\ IsAuthenticationError(inv[p].outcome)
            /\ inv[p].nreq = 0
            /\ inv[p].request = PyNone

C1_Witness ==
    /\ ApiKeyAbsent
    /\ "SPLITWISE_ACCESS_TOKEN" \in DOMAIN env
    /\ inv[1].pc = "done"
    /\ inv[1].tool = "get_groups"
    /\ IsAuthenticationError(inv[1].outcome)

-----------------------------------------------------------------------------
(* C4 *)

\* The exchange of p ended with HTTP 200 and a JSON object without `expense`.
NoExpenseKey(p) ==
    /\ inv[p].tool = "add_expense"
    /\ Answered(p)
    /\ inv[p].response.kind = "http"
    /\ inv[p].response.status = 200
    /\ inv[p].response.body.json
    /\ "expense" \notin DOMAIN inv[p].response.body.data

\* C4: add_expense whose request is answered 200 with a JSON body lacking the
\* `expense` key fails with the unexpected-structure error carrying the body;
\* it returns no result.
C4_NoExpenseKeyIsMalformed ==
    \A p \in Procs :
        NoExpenseKey(p) =>
            inv[p].outcome = Raise("ValueError", "Unexpected API response structure",
                                   PyDict(inv[p].response.body.data))

C4_Witness == NoExpenseKey(1) /\ inv[1].pc = "done"

-----------------------------------------------------------------------------
(* C6 *)

GrouplessCreated == Http(200, Json("expense" :> PyDict(ExpenseRecord(PyNone))))

\* C6: add_expense called without a group id and answered with a successful
\* expense record whose group id is null returns the result mapping with the
\* expense id, the success flag and a null group id.
C6_GrouplessExpenseSucceeds ==
    \A p \in Procs :
        (/\ inv[p].tool = "add_expense"
         /\ inv[p].pc = "done"
         /\ inv[p].args.group_id = PyNone
         /\ inv[p].response = GrouplessCreated) =>
            /\ inv[p].outcome.kind = "return"
            /\ inv[p].outcome.value.val.id = PyInt(42)
            /\ inv[p].outcome.value.val.success = PyBool(TRUE)
            /\ inv[p].outcome.value.val.group_id = PyNone

-----------------------------------------------------------------------------
(* C7 *)

Is2xx(resp) == resp.kind = "http" /\ resp.status \in 200..299

\* C7 as stated: a client operation fails with TransportError exactly when the
\* exchange ends in a network error or a non-2xx status.
C7_TransportErrorIffNot2xx ==
    \A p \in Procs :
        Answered(p) =>
            (IsTransportError(inv[p].outcome) <=> ~Is2xx(inv[p].response))

\* C7 amended: TransportError exactly on a network error, a non-2xx status, or
\* a 2xx status other than 200 with a JSON body; no response other than 200
\* yields a result.
C7_TransportErrorIffNot200 ==
    \A p \in Procs :
        Answered(p) =>
            LET resp == inv[p].response
            IN /\ IsTransportError(inv[p].outcome) <=>
                    \/ ~Is2xx(resp)
                    \/ resp.status # 200 /\ resp.body.json
               /\ inv[p].outcome.kind = "return" => (Is2xx(resp) /\ resp.status = 200)

C7_Witness ==
    /\ inv[1].pc = "done"
    /\ inv[1].response = Http(201, Json("expense" :> PyDict(ExpenseRecord(PyInt(5)))))
    /\ IsTransportError(inv[1].outcome)

-----------------------------------------------------------------------------
(* C8 *)

\* C8: an invocation issues at most one HTTP request; one that failed after
\* its request was answered issued exactly one, and so did one that returned.
C8_AtMostOneRequest ==
    \A p \in Procs :
        /\ inv[p].nreq <= 1
        /\ Answered(p) => inv[p].nreq = 1
        /\ (Finished(p) /\ inv[p].outcome.kind = "return") => inv[p].nreq = 1

C8_Witness ==
    /\ inv[1].pc = "done"
    /\ inv[1].tool = "add_expense"
    /\ inv[1].outcome.kind = "return"
    /\ inv[1].nreq = 1

-----------------------------------------------------------------------------
(* C9 *)

\* C9: the client of a terminated invocation is closed; a request in flight is
\* on an open client; every open client belongs to a running invocation.
C9_ClientClosedOnEveryExit ==
    /\ \A p \in Procs :
          /\ (inv[p].pc = "done" /\ inv[p].client # 0) => heap[inv[p].client] = "closed"
          /\ inv[p].pc = "awaiting" => heap[inv[p].client] = "open"
          /\ inv[p].client # 0 => inv[p].client \in DOMAIN heap
    /\ \A c \in DOMAIN heap :
          heap[c] = "open" =>
              \E p \in Procs : inv[p].client = c /\ inv[p].pc \in {"awaiting", "exiting"}

C9_Witness ==
    /\ inv[1].pc = "done"
    /\ inv[1].outcome.kind = "raise"
    /\ inv[1].outcome.exc = "ValidationError"
    /\ heap[inv[1].client] = "closed"
    /\ inv[2].pc = "done"
    /\ inv[2].outcome.kind = "raise"
    /\ inv[2].outcome.exc = "RequestError"
    /\ heap[inv[2].client] = "closed"

-----------------------------------------------------------------------------
(* C10 *)

\* Invocations that hold a client hold different clients.
OwnClients ==
    \A p, q \in Procs :
        (p # q /\ inv[p].client # 0 /\ inv[q].client # 0) => inv[p].client # inv[q].client

\* Equal tool, arguments and response give equal outcomes.
SameInputsSameOutcome ==
    \A p, q \in Procs :
        (/\ Finished(p) /\ Finished(q)
         /\ inv[p].tool = inv[q].tool
         /\ inv[p].args = inv[q].args
         /\ inv[p].response = inv[q].response) => inv[p].outcome = inv[q].outcome

\* A step of one invocation changes nothing of another invocation, nor the
\* state of another invocation's client.
StepIsLocal ==
    \A p \in Procs :
        inv'[p] # inv[p] =>
            \A q \in Procs \ {p} :
                /\ inv'[q] = inv[q]
                /\ inv[q].client # 0 => heap'[inv[q].client] = heap[inv[q].client]

\* C10: concurrent invocations share no client, a step of one (closing its
\* client included) leaves the others and their clients untouched, and the
\* outcome depends only on the invocation's own inputs and response.
C10_InvocationsIndependent ==
    /\ [](OwnClients /\ SameInputsSameOutcome)
    /\ [][StepIsLocal]_vars

C10_Witness ==
    /\ inv[1].pc = "done"
    /\ inv[1].client # 0
    /\ heap[inv[1].client] = "closed"
    /\ inv[2].pc = "awaiting"
    /\ inv[2].tool # inv[1].tool
    /\ heap[inv[2].client] = "open"

-----------------------------------------------------------------------------
(* C2 *)

BaseKeys == {"cost", "description", "currency_code", "payment"}
OptionalKeys == {"group_id", "date", "details", "category_id"}

\* The invocation has sent a create-expense request.
SentExpense(p) == inv[p].tool = "add_expense" /\ inv[p].nreq > 0

SentPayload(p) == inv[p].request.json.val

NonNullNonEmpty(v) == v.kind # "None" /\ ~(v.kind = "str" /\ v.val = "")

NonNullNonEmptyNonZero(v) == NonNullNonEmpty(v) /\ ~(v.kind = "int" /\ v.val = 0)

\* C2 as stated: the base keys are always present, and each optional key is
\* present with the caller's value iff the caller gave a non-null, non-empty
\* value; none is sent as null.
C2_OptionalKeysIffNonNullNonEmpty ==
    \A p \in Procs :
        SentExpense(p) =>
            /\ \A k \in BaseKeys :
                  k \in DOMAIN SentPayload(p) /\ SentPayload(p)[k] = inv[p].args[k]
            /\ \A k \in OptionalKeys :
                  /\ k \in DOMAIN SentPayload(p) <=> NonNullNonEmpty(inv[p].args[k])
                  /\ k \in DOMAIN SentPayload(p) =>
                        /\ SentPayload(p)[k] = inv[p].args[k]
                        /\ SentPayload(p)[k] # PyNone

\* C2 amended: each optional key is present with the caller's value iff the
\* caller gave a value that is not null, not the empty string and not the
\* integer 0; none is sent as null.
C2_OptionalKeysIffNonNullNonEmptyNonZero ==
    \A p \in Procs :
        SentExpense(p) =>
            /\ \A k \in BaseKeys :
                  k \in DOMAIN SentPayload(p) /\ SentPayload(p)[k] = inv[p].args[k]
            /\ \A k \in OptionalKeys :
                  /\ k \in DOMAIN SentPayload(p) <=> NonNullNonEmptyNonZero(inv[p].args[k])
                  /\ k \in DOMAIN SentPayload(p) =>
                        /\ SentPayload(p)[k] = inv[p].args[k]
                        /\ SentPayload(p)[k] # PyNone

C2_Witness ==
    /\ SentExpense(1)
    /\ inv[1].args.group_id = PyInt(0)
    /\ inv[1].args.date = PyStr("")
    /\ inv[1].args.details = PyStr("note")
    /\ inv[1].args.category_id = PyNone
    /\ DOMAIN SentPayload(1) = BaseKeys \cup {"details"}

-----------------------------------------------------------------------------
(* C3 *)

ShareFields == {"user_id", "paid_share", "owed_share"}

Digits == <<"0", "1", "2", "3", "4", "5", "6", "7", "8", "9">>

\* The field name users__<i>__<f>, for i < 10.
FlatKey(i, f) == "users__" \o Digits[i + 1] \o "__" \o f

\* The participant list the caller passed (none counts as empty).
SharesOf(p) == IF inv[p].args.users.kind = "list" THEN inv[p].args.users.val ELSE <<>>

\* C3: the payload holds users__<i>__<f> iff entry i (zero-based) of the list
\* holds f, with the entry's value; it holds no other users__ key.
C3_SharesFlattenedByIndex ==
    \A p \in Procs :
        SentExpense(p) =>
            /\ \A i \in 0..(MaxUsers + 1) : \A f \in ShareFields :
                  /\ FlatKey(i, f) \in DOMAIN SentPayload(p) <=>
                        (i < Len(SharesOf(p)) /\ f \in DOMAIN SharesOf(p)[i + 1].val)
                  /\ FlatKey(i, f) \in DOMAIN SentPayload(p) =>
                        SentPayload(p)[FlatKey(i, f)] = SharesOf(p)[i + 1].val[f]
            /\ DOMAIN SentPayload(p) \subseteq
                  BaseKeys \cup OptionalKeys
                  \cup {FlatKey(i, f) : i \in 0..(Len(SharesOf(p)) - 1), f \in ShareFields}

C3_Witness ==
    /\ SentExpense(1)
    /\ inv[1].args.users =
          PyList(<<PyDict(("user_id" :> PyInt(1)) @@ ("paid_share" :> PyStr("5.00"))),
                   PyDict(("user_id" :> PyInt(2)) @@ ("owed_share" :> PyStr("5.00")))>>)
    /\ DOMAIN SentPayload(1) =
          BaseKeys \cup {"users__0__user_id", "users__0__paid_share",
                         "users__1__user_id", "users__1__owed_share"}
    /\ SentPayload(1)["users__1__user_id"] = PyInt(2)

-----------------------------------------------------------------------------
(* C5 *)

\* The user records of the response of p paired with their projections:
\* <<upstream record, projected dict>>.
ProjectedUsers(p) ==
    LET data == inv[p].response.body.data
        out == inv[p].outcome.value.val
    IN CASE inv[p].tool = "get_current_user" -> {<<data["user"].val, out>>}
         [] inv[p].tool = "get_users" ->
               {<<data["friends"].val[i].val, out[i].val>> : i \in 1..Len(out)}
         [] inv[p].tool = "get_groups" ->
               UNION {{<<data["groups"].val[g].val["members"].val[m].val,
                         out[g].val.members.val[m].val>> :
                          m \in 1..Len(out[g].val.members.val)} : g \in 1..Len(out)}
         [] OTHER -> {}

Projected(p) == Finished(p) /\ inv[p].outcome.kind = "return"

HasLastName(u) == u["last_name"].kind = "str"

RECURSIVE Spaces(_)
Spaces(n) == IF n = 0 THEN "" ELSE " " \o Spaces(n - 1)

EdgeFree(x) ==
    Len(x) = 0 \/ (SubSeq(x, 1, 1) \notin Whitespace /\ SubSeq(x, Len(x), Len(x)) \notin Whitespace)

====
